---- MODULE Spec2Model ----
(***************************************************************************)
(* EOF1 (EIP-3540) container header parsing, core/vm/eof.go.               *)
(*                                                                         *)
(* The functions of eof.go are pure functions of a byte buffer.  They are  *)
(* operators here, computed as the code computes them; the actions apply   *)
(* them to a buffer drawn from bounded families of inputs, in the order    *)
(* the tests call them, and derive further buffers from an input (bytes    *)
(* appended, bytes cut off the end, one byte overwritten).                 *)
(*                                                                         *)
(* A buffer is head \o (fillLen copies of the byte fill), so that inputs   *)
(* as long as 11 + 2 * 65535 bytes are values TLC can hold.  Offsets are   *)
(* 0-based as in the Go code.                                              *)
(***************************************************************************)
EXTENDS Integers, Sequences, FiniteSets, TLC

VARIABLES code,    \* the input buffer, code []byte
          pc,      \* which call comes next
          eof,     \* results of hasFormatByte, hasEOFMagic, isEOFCode
          res,     \* outcome of readEOF1Header(code)
          valid,   \* result of validateEOF(code)
          vres,    \* outcome of readValidEOF1Header(code)
          base,    \* the buffer code was derived from, and its outcome
          edit,    \* how code was derived from base.code
          test     \* the sizes code was laid out with, as an eof1Test
                   \* holds them next to its code; codeSize 0: none

vars == <<code, pc, eof, res, valid, vres, base, edit, test>>

----------------------------------------------------------------------------
(* Bounds of the input families.                                           *)

MaxPrefix == 4     \* longest buffer of the arbitrary-prefix family
MaxDecl == 7       \* most bytes after the version byte, section family
MaxTail == 2       \* most fill bytes after the head, both families
MaxDeclD == 4      \* as MaxDecl, for the buffers that are edited
MaxDelta == 2      \* most bytes appended or cut off in one edit
MaxContents == 2   \* most section contents written out byte by byte

----------------------------------------------------------------------------
(* Program constants.                                                      *)

eofFormatByte == 239
eofMagic == <<202, 254>>
eof1Version == 1

ErrEOF1InvalidFormatByte == "ErrEOF1InvalidFormatByte"
ErrEOF1InvalidMagic == "ErrEOF1InvalidMagic"
ErrEOF1InvalidVersion == "ErrEOF1InvalidVersion"
ErrEOF1MultipleCodeSections == "ErrEOF1MultipleCodeSections"
ErrEOF1CodeSectionSizeMissing == "ErrEOF1CodeSectionSizeMissing"
ErrEOF1EmptyCodeSection == "ErrEOF1EmptyCodeSection"
ErrEOF1DataSectionBeforeCodeSection == "ErrEOF1DataSectionBeforeCodeSection"
ErrEOF1MultipleDataSections == "ErrEOF1MultipleDataSections"
ErrEOF1DataSectionSizeMissing == "ErrEOF1DataSectionSizeMissing"
ErrEOF1EmptyDataSection == "ErrEOF1EmptyDataSection"
ErrEOF1UnknownSection == "ErrEOF1UnknownSection"
ErrEOF1CodeSectionMissing == "ErrEOF1CodeSectionMissing"
ErrEOF1InvalidTotalSize == "ErrEOF1InvalidTotalSize"

\* err == nil
nil == "nil"
\* the Go runtime's panic on an index or slice bound outside the buffer
panic == "panic"

----------------------------------------------------------------------------
(* The buffer.                                                             *)

\* len(code)
len(c) == Len(c.head) + c.fillLen

\* the bounds check of the index expression code[i]
InRange(c, i) == 0 <= i /\ i < len(c)

\* code[i]; -1, no byte, where the index is outside the buffer
At(c, i) ==
    IF ~InRange(c, i) THEN -1
    ELSE IF i < Len(c.head) THEN c.head[i + 1] ELSE c.fill

\* the bounds check of the slice expression code[lo:hi]
SliceInRange(c, lo, hi) == 0 <= lo /\ lo <= hi /\ hi <= len(c)

\* Uint16 with the bytes in little-endian order
Uint16LittleEndian(c, i) == At(c, i) + At(c, i + 1) * 256

\* binary.BigEndian.Uint16(code[i : i+2])
Uint16(c, i) == At(c, i) * 256 + At(c, i + 1)

\* eof1Header{}
ZeroHeader == [codeSize |-> 0, dataSize |-> 0]

----------------------------------------------------------------------------
(* Format detector.                                                        *)

hasFormatByte(c) == len(c) # 0 /\ At(c, 0) = eofFormatByte

\* hasEOFMagic comparing code[0:magicLen] with the magic
hasEOFMagicFromStart(c) ==
    LET magicLen == Len(eofMagic)
        codeLen == len(c)
    IN  /\ 1 + magicLen <= codeLen
        /\ \A k \in 1..magicLen : At(c, k - 1) = eofMagic[k]

hasEOFMagic(c) ==
    LET magicLen == Len(eofMagic)
        codeLen == len(c)
    IN  /\ 1 + magicLen <= codeLen
        /\ \A k \in 1..magicLen : At(c, k) = eofMagic[k]

isEOFCode(c) == hasFormatByte(c) /\ hasEOFMagic(c)

----------------------------------------------------------------------------
(* Header parser.  An outcome is the returned header and error, with the   *)
(* value of the cursor i at the return and how the section loop was left:  *)
(* "break" by the terminator's break, "end" by its condition i < codeLen   *)
(* turning false, "return" by a return statement (before or in the loop).  *)

Return(header, err, i, exit) ==
    [header |-> header, err |-> err, i |-> i, exit |-> exit]

\* return eof1Header{}, err
Fail(err, i) == Return(ZeroHeader, err, i, "return")

\* TotalSize with the section sizes added as uint16
TotalSizeUint16(i, header) ==
    i + ((header.codeSize + header.dataSize) % 65536)

\* i + int(header.codeSize) + int(header.dataSize), Go int arithmetic
TotalSize(i, header) == i + header.codeSize + header.dataSize

\* postScan rejecting only contents shorter than declared
postScanTrailingAllowed(c, i, header, exit) ==
    IF header.codeSize = 0
    THEN Return(ZeroHeader, ErrEOF1CodeSectionMissing, i, exit)
    ELSE IF TotalSize(i, header) > len(c)
         THEN Return(ZeroHeader, ErrEOF1InvalidTotalSize, i, exit)
         ELSE Return(header, nil, i, exit)

\* the checks after the section loop
postScan(c, i, header, exit) ==
    IF header.codeSize = 0
    THEN Return(ZeroHeader, ErrEOF1CodeSectionMissing, i, exit)
    ELSE IF TotalSize(i, header) # len(c)
         THEN Return(ZeroHeader, ErrEOF1InvalidTotalSize, i, exit)
         ELSE Return(header, nil, i, exit)

\* codeSectionErr with the size check before the duplicate check
codeSectionErrSizeFirst(c, i, header) ==
    IF i + 2 > len(c) THEN ErrEOF1CodeSectionSizeMissing
    ELSE IF header.codeSize # 0 THEN ErrEOF1MultipleCodeSections
    ELSE IF ~SliceInRange(c, i, i + 2) THEN panic
    ELSE IF Uint16(c, i) = 0 THEN ErrEOF1EmptyCodeSection
    ELSE nil

\* codeSectionErr without the check of a zero size
codeSectionErrZeroAllowed(c, i, header) ==
    IF header.codeSize # 0 THEN ErrEOF1MultipleCodeSections
    ELSE IF i + 2 > len(c) THEN ErrEOF1CodeSectionSizeMissing
    ELSE IF ~SliceInRange(c, i, i + 2) THEN panic
    ELSE nil

\* case 1 of the switch, i already past the kind byte: the error it
\* returns, nil when the size is stored and the loop goes on
codeSectionErr(c, i, header) ==
    IF header.codeSize # 0 THEN ErrEOF1MultipleCodeSections
    ELSE IF i + 2 > len(c) THEN ErrEOF1CodeSectionSizeMissing
    ELSE IF ~SliceInRange(c, i, i + 2) THEN panic
    ELSE IF Uint16(c, i) = 0 THEN ErrEOF1EmptyCodeSection
    ELSE nil

\* dataSectionErr asking for one byte of size instead of two
dataSectionErrOneByte(c, i, header) ==
    IF header.codeSize = 0 THEN ErrEOF1DataSectionBeforeCodeSection
    ELSE IF header.dataSize # 0 THEN ErrEOF1MultipleDataSections
    ELSE IF i + 1 > len(c) THEN ErrEOF1DataSectionSizeMissing
    ELSE IF ~SliceInRange(c, i, i + 2) THEN panic
    ELSE IF Uint16(c, i) = 0 THEN ErrEOF1EmptyDataSection
    ELSE nil

\* case 2 of the switch
dataSectionErr(c, i, header) ==
    IF header.codeSize = 0 THEN ErrEOF1DataSectionBeforeCodeSection
    ELSE IF header.dataSize # 0 THEN ErrEOF1MultipleDataSections
    ELSE IF i + 2 > len(c) THEN ErrEOF1DataSectionSizeMissing
    ELSE IF ~SliceInRange(c, i, i + 2) THEN panic
    ELSE IF Uint16(c, i) = 0 THEN ErrEOF1EmptyDataSection
    ELSE nil

\* sectionLoop with an unlabelled break in case 0: it leaves the switch,
\* not the loop
RECURSIVE sectionLoopPlainBreak(_, _, _)
sectionLoopPlainBreak(c, i0, header) ==
    IF ~(i0 < len(c))
    THEN postScan(c, i0, header, "end")
    ELSE LET sectionKind == At(c, i0)
             i == i0 + 1
         IN  CASE sectionKind = 0 ->
                    \* in the tail every byte left is 0 as well
                    sectionLoopPlainBreak(c,
                        IF i0 >= Len(c.head) THEN len(c) ELSE i, header)
               [] sectionKind = 1 ->
                    LET e == codeSectionErr(c, i, header)
                    IN  IF e # nil THEN Fail(e, i)
                        ELSE sectionLoopPlainBreak(c, i + 2,
                                 [header EXCEPT !.codeSize = Uint16(c, i)])
               [] sectionKind = 2 ->
                    LET e == dataSectionErr(c, i, header)
                    IN  IF e # nil THEN Fail(e, i)
                        ELSE sectionLoopPlainBreak(c, i + 2,
                                 [header EXCEPT !.dataSize = Uint16(c, i)])
               [] OTHER -> Fail(ErrEOF1UnknownSection, i)

\* the loop labelled sectionLoop
RECURSIVE sectionLoop(_, _, _)
sectionLoop(c, i0, header) ==
    IF ~(i0 < len(c))
    THEN postScan(c, i0, header, "end")
    ELSE LET sectionKind == At(c, i0)
             i == i0 + 1
         IN  CASE sectionKind = 0 -> postScan(c, i, header, "break")
               [] sectionKind = 1 ->
                    LET e == codeSectionErr(c, i, header)
                    IN  IF e # nil THEN Fail(e, i)
                        ELSE sectionLoop(c, i + 2,
                                 [header EXCEPT !.codeSize = Uint16(c, i)])
               [] sectionKind = 2 ->
                    LET e == dataSectionErr(c, i, header)
                    IN  IF e # nil THEN Fail(e, i)
                        ELSE sectionLoop(c, i + 2,
                                 [header EXCEPT !.dataSize = Uint16(c, i)])
               [] OTHER -> Fail(ErrEOF1UnknownSection, i)

\* the version check
versionOK(c, i) ==
    ~(i >= len(c) \/ At(c, i) # eof1Version)

readEOF1Header(c) ==
    IF ~hasFormatByte(c) THEN Fail(ErrEOF1InvalidFormatByte, 0)
    ELSE IF ~hasEOFMagic(c) THEN Fail(ErrEOF1InvalidMagic, 0)
    ELSE LET i == 1 + Len(eofMagic)
         IN  IF ~versionOK(c, i) THEN Fail(ErrEOF1InvalidVersion, i)
             ELSE sectionLoop(c, i + 1, ZeroHeader)

----------------------------------------------------------------------------
(* Validator facade.                                                       *)

\* validateEOF looking at the prefix only
validateEOFPrefixOnly(c) == isEOFCode(c)

validateEOF(c) == readEOF1Header(c).err = nil

----------------------------------------------------------------------------
(* Trusted reader.  Its outcome is the header it returns, or a panic when  *)
(* an index or slice bound it uses is outside the buffer.                  *)

\* readValidEOF1Header with the data size read one byte early
readValidEOF1HeaderEarly(c) ==
    LET codeSizeOffset == 3 + Len(eofMagic)
        dataSizeOffset == codeSizeOffset + 2
        codeSize == Uint16(c, codeSizeOffset)
    IN  IF ~SliceInRange(c, codeSizeOffset, codeSizeOffset + 2)
        THEN [header |-> ZeroHeader, err |-> panic]
        ELSE IF ~InRange(c, codeSizeOffset + 2)
        THEN [header |-> ZeroHeader, err |-> panic]
        ELSE IF At(c, codeSizeOffset + 2) = 2
        THEN IF ~SliceInRange(c, dataSizeOffset, dataSizeOffset + 2)
             THEN [header |-> ZeroHeader, err |-> panic]
             ELSE [header |-> [codeSize |-> codeSize,
                               dataSize |-> Uint16(c, dataSizeOffset)],
                   err |-> nil]
        ELSE [header |-> [codeSize |-> codeSize, dataSize |-> 0],
              err |-> nil]

readValidEOF1Header(c) ==
    LET codeSizeOffset == 3 + Len(eofMagic)
        dataSizeOffset == codeSizeOffset + 3
        codeSize == Uint16(c, codeSizeOffset)
    IN  IF ~SliceInRange(c, codeSizeOffset, codeSizeOffset + 2)
        THEN [header |-> ZeroHeader, err |-> panic]
        ELSE IF ~InRange(c, codeSizeOffset + 2)
        THEN [header |-> ZeroHeader, err |-> panic]
        ELSE IF At(c, codeSizeOffset + 2) = 2
        THEN IF ~SliceInRange(c, dataSizeOffset, dataSizeOffset + 2)
             THEN [header |-> ZeroHeader, err |-> panic]
             ELSE [header |-> [codeSize |-> codeSize,
                               dataSize |-> Uint16(c, dataSizeOffset)],
                   err |-> nil]
        ELSE [header |-> [codeSize |-> codeSize, dataSize |-> 0],
              err |-> nil]

----------------------------------------------------------------------------
(* Inputs.                                                                 *)

\* a buffer: head followed by fillLen bytes fill (fill is 0 when there
\* are none)
Buffer(head, fillLen, fill) ==
    [head |-> head, fillLen |-> fillLen,
     fill |-> IF fillLen = 0 THEN 0 ELSE fill]

SeqsUpTo(S, n) == UNION {[1..k -> S] : k \in 0..n}

\* byte values of the prefix: the format byte, the magic, versions 0..2
PrefixVals == {0, 1, 2, 202, 239, 254}
\* byte values of the section declarations: kinds 0..3, sizes 0..0x0303
SectVals == {0, 1, 2, 3}
\* byte values of section contents
PayloadVals == {0, 2, 170}
\* declared section sizes at the ends of the 16-bit range and around a
\* change of the high byte
SizeVals == {1, 2, 255, 256, 65534, 65535}

\* binary.BigEndian.PutUint16
PutUint16(v) == <<v \div 256, v % 256>>

\* the declarations of the container of EIP-3540 with the given section
\* sizes (no data declaration when dataSize = 0), terminator included
LayoutHeader(codeSize, dataSize) ==
    <<eofFormatByte>> \o eofMagic \o <<eof1Version>>
        \o <<1>> \o PutUint16(codeSize)
        \o (IF dataSize = 0 THEN <<>> ELSE <<2>> \o PutUint16(dataSize))
        \o <<0>>

\* that container, its contents codeSize + dataSize bytes: those of p,
\* then bytes b
Layout(codeSize, dataSize, p, b) ==
    Buffer(LayoutHeader(codeSize, dataSize) \o p,
           codeSize + dataSize - Len(p), b)

\* the sizes an eof1Test expects; codeSize 0 where there is no test
Expect(codeSize, dataSize) == [codeSize |-> codeSize, dataSize |-> dataSize]

\* arbitrary short buffers: what the prefix checks see
PrefixInput ==
    \E h \in SeqsUpTo(PrefixVals, MaxPrefix), n \in 0..MaxTail :
        /\ code = Buffer(h, n, 1)
        /\ test = Expect(0, 0)

\* EF CA FE 01, then arbitrary declaration bytes, then a tail
SectionInput(maxDecl) ==
    \E d \in SeqsUpTo(SectVals, maxDecl), n \in 0..MaxTail :
        /\ code = Buffer(<<eofFormatByte>> \o eofMagic \o <<eof1Version>>
                             \o d, n, 170)
        /\ test = Expect(0, 0)

\* well-formed containers
LayoutInput ==
    \E cs \in SizeVals, ds \in SizeVals \cup {0}, b \in PayloadVals,
       p \in SeqsUpTo(PayloadVals, MaxContents) :
        /\ Len(p) <= cs + ds
        /\ code = Layout(cs, ds, p, b)
        /\ test = Expect(cs, ds)

\* the same declarations with contents of a few bytes only
ShortLayoutInput ==
    \E cs \in SizeVals, ds \in SizeVals \cup {0},
       n \in 0..MaxTail, b \in PayloadVals :
        /\ n # cs + ds
        /\ code = Buffer(LayoutHeader(cs, ds), n, b)
        /\ test = Expect(0, 0)

----------------------------------------------------------------------------
(* The calls.                                                              *)

unset == "unset"
NoBase == [code |-> Buffer(<<>>, 0, 0), res |-> unset]
NoEdit == [op |-> "none", at |-> 0, n |-> 0]

Start ==
    /\ pc = "detect"
    /\ eof = unset
    /\ res = unset
    /\ valid = unset
    /\ vres = unset
    /\ base = NoBase
    /\ edit = NoEdit

Init ==
    /\ \/ PrefixInput
       \/ SectionInput(MaxDecl)
       \/ LayoutInput
       \/ ShortLayoutInput
    /\ Start

InitEdit ==
    /\ \/ SectionInput(MaxDeclD)
       \/ LayoutInput
    /\ Start

CallIsEOFCode ==
    /\ pc = "detect"
    /\ eof' = [hasFormatByte |-> hasFormatByte(code),
               hasEOFMagic |-> hasEOFMagic(code),
               isEOFCode |-> isEOFCode(code)]
    /\ pc' = "parse"
    /\ UNCHANGED <<code, res, valid, vres, base, edit, test>>

CallReadEOF1Header ==
    /\ pc = "parse"
    /\ res' = readEOF1Header(code)
    /\ pc' = "validate"
    /\ UNCHANGED <<code, eof, valid, vres, base, edit, test>>

CallValidateEOF ==
    /\ pc = "validate"
    /\ valid' = validateEOF(code)
    /\ pc' = "trusted"
    /\ UNCHANGED <<code, eof, res, vres, base, edit, test>>

CallReadValidEOF1Header ==
    /\ pc = "trusted"
    /\ vres' = readValidEOF1Header(code)
    /\ pc' = "done"
    /\ UNCHANGED <<code, eof, res, valid, base, edit, test>>

Next ==
    \/ CallIsEOFCode
    \/ CallReadEOF1Header
    \/ CallValidateEOF
    \/ CallReadValidEOF1Header

Spec == Init /\ [][Next]_vars

----------------------------------------------------------------------------
(* Edits: a second buffer made from one that was parsed, parsed in turn.   *)

\* the bytes of the buffer written out; used for short tails only
Bytes(c) == c.head \o [k \in 1..c.fillLen |-> c.fill]

\* append(code, b, ..., b), n bytes
Appended(c, n, b) ==
    IF c.fillLen > 0 /\ c.fill = b
    THEN Buffer(c.head, c.fillLen + n, b)
    ELSE Buffer(Bytes(c), n, b)

\* code[:len(code)-n]
Truncated(c, n) ==
    IF n <= c.fillLen
    THEN Buffer(c.head, c.fillLen - n, c.fill)
    ELSE Buffer(SubSeq(c.head, 1, len(c) - n), 0, 0)

\* amounts by which a buffer is cut: a few bytes, or 2^16 of them
CutVals == 1..MaxDelta \cup {65536}

Edited(c, op, at, n) ==
    /\ pc = "validate"
    /\ edit = NoEdit
    /\ c # code
    /\ code' = c
    /\ base' = [code |-> code, res |-> res]
    /\ edit' = [op |-> op, at |-> at, n |-> n]
    /\ pc' = "parse"
    /\ res' = unset
    /\ test' = Expect(0, 0)
    /\ UNCHANGED <<eof, valid, vres>>

AppendBytes ==
    \E n \in 1..MaxDelta, b \in PayloadVals :
        /\ code.fillLen <= MaxTail \/ code.fill = b
        /\ Edited(Appended(code, n, b), "append", len(code), n)

TruncateBytes ==
    \E n \in CutVals :
        /\ n <= len(code)
        /\ Edited(Truncated(code, n), "truncate", len(code) - n, n)

\* code[at] = b, for a byte of the head
OverwriteByte ==
    \E at \in 0..(Len(code.head) - 1), b \in PayloadVals :
        Edited([code EXCEPT !.head[at + 1] = b], "overwrite", at, 1)

\* code[at], ..., code[len(code)-1] = b, for the whole tail
OverwriteTail ==
    \E b \in PayloadVals :
        /\ code.fillLen > 0
        /\ Edited([code EXCEPT !.fill = b], "overwrite",
                  Len(code.head), code.fillLen)

NextEdit ==
    \/ CallIsEOFCode
    \/ CallReadEOF1Header
    \/ AppendBytes
    \/ TruncateBytes
    \/ OverwriteByte
    \/ OverwriteTail

SpecEdit == InitEdit /\ [][NextEdit]_vars

----------------------------------------------------------------------------
(* Properties.                                                             *)

\* readEOF1Header(code) has returned and res is its outcome
Parsed == pc \in {"validate", "trusted", "done"}

\* C1: a buffer laid out as EF CA FE 01, 01 and a big-endian codeSize
\* in 1..65535, optionally 02 and a big-endian dataSize in 1..65535, 00,
\* then exactly codeSize + dataSize bytes, is parsed without error and
\* the header returned holds the declared sizes, whatever the contents.
C1_LayoutAccepted ==
    (Parsed /\ test.codeSize # 0) =>
        /\ res.err = nil
        /\ res.header.codeSize = test.codeSize
        /\ res.header.dataSize = test.dataSize

C1_Witness ==
    /\ Parsed
    /\ test = Expect(256, 65535)
    /\ At(code, 11) = 2
    /\ At(code, 12) = 0
    /\ code.fill = 170
    /\ res.err = nil
    /\ res.header = [codeSize |-> 256, dataSize |-> 65535]

\* C2: when readEOF1Header returns without error, codeSize is not 0 and
\* the cursor after the declarations plus codeSize plus dataSize, as an
\* exact integer sum, is the length of the buffer.
C2_ExactTotalSize ==
    (Parsed /\ res.err = nil) =>
        /\ res.header.codeSize # 0
        /\ res.exit = "break"
        /\ res.i + res.header.codeSize + res.header.dataSize = len(code)

C2_Witness ==
    /\ Parsed
    /\ res.err = nil
    /\ res.header = [codeSize |-> 65535, dataSize |-> 65535]
    /\ len(code) = 11 + 131070

\* the error of the first rule violated, in the order the rules are
\* stated: the prefix, then each declaration in cursor order, then the
\* checks made when scanning has stopped
RuleAfterScan(c, k, codeSeen, cs, ds) ==
    IF ~codeSeen THEN ErrEOF1CodeSectionMissing
    ELSE IF k + cs + ds # len(c) THEN ErrEOF1InvalidTotalSize
    ELSE nil

RECURSIVE RuleOfSections(_, _, _, _, _, _)
RuleOfSections(c, k, codeSeen, dataSeen, cs, ds) ==
    IF k >= len(c) THEN RuleAfterScan(c, k, codeSeen, cs, ds)
    ELSE LET kind == At(c, k)
             sizeBytes == len(c) - (k + 1)
             size == 256 * At(c, k + 1) + At(c, k + 2)
         IN  IF kind = 0 THEN RuleAfterScan(c, k + 1, codeSeen, cs, ds)
             ELSE IF kind = 1
             THEN IF codeSeen THEN ErrEOF1MultipleCodeSections
                  ELSE IF sizeBytes < 2 THEN ErrEOF1CodeSectionSizeMissing
                  ELSE IF size = 0 THEN ErrEOF1EmptyCodeSection
                  ELSE RuleOfSections(c, k + 3, TRUE, dataSeen, size, ds)
             ELSE IF kind = 2
             THEN IF ~codeSeen THEN ErrEOF1DataSectionBeforeCodeSection
                  ELSE IF dataSeen THEN ErrEOF1MultipleDataSections
                  ELSE IF sizeBytes < 2 THEN ErrEOF1DataSectionSizeMissing
                  ELSE IF size = 0 THEN ErrEOF1EmptyDataSection
                  ELSE RuleOfSections(c, k + 3, codeSeen, TRUE, cs, size)
             ELSE ErrEOF1UnknownSection

FirstRuleViolated(c) ==
    IF len(c) = 0 \/ At(c, 0) # 239 THEN ErrEOF1InvalidFormatByte
    ELSE IF len(c) < 3 \/ At(c, 1) # 202 \/ At(c, 2) # 254
    THEN ErrEOF1InvalidMagic
    ELSE IF len(c) < 4 \/ At(c, 3) # 1 THEN ErrEOF1InvalidVersion
    ELSE RuleOfSections(c, 4, FALSE, FALSE, 0, 0)

\* C3: the error readEOF1Header returns is the error of the first rule
\* violated, in the order format byte, magic, version, then per section
\* kind byte (code: multiple, size missing, empty; data: before code,
\* multiple, size missing, empty; other kinds: unknown), then code
\* section missing, then total size; and no error when no rule is
\* violated.
C3_FirstViolatedRule ==
    Parsed => res.err = FirstRuleViolated(code)

\* a second code declaration, cut short before its size: the duplicate
\* is reported, not the missing size
C3_Witness ==
    /\ Parsed
    /\ code.head = <<239, 202, 254, 1, 1, 0, 2, 1, 0>>
    /\ code.fillLen = 0
    /\ res.err = ErrEOF1MultipleCodeSections

\* C4: on a buffer readEOF1Header accepts, readValidEOF1Header reads
\* inside the buffer only and returns the same codeSize and dataSize,
\* dataSize 0 exactly when no data section is declared.
C4_TrustedReaderAgrees ==
    (pc = "done" /\ res.err = nil) =>
        /\ vres.err = nil
        /\ vres.header = res.header
        /\ (vres.header.dataSize = 0) <=> (At(code, 7) = 0)

C4_Witness ==
    /\ pc = "done"
    /\ res.err = nil
    /\ vres.err = nil
    /\ vres.header = [codeSize |-> 2, dataSize |-> 1]

\* C5: an accepted buffer declares exactly one code section, then at
\* most one data section, then a terminator inside the buffer, so the
\* declarations end at offset 8 without data and 11 with data; a loop
\* ended by exhausting the buffer gives CodeSectionMissing or
\* InvalidTotalSize.
C5_SectionStructure ==
    Parsed =>
        /\ res.err = nil =>
              /\ res.exit = "break"
              /\ res.i <= len(code)
              /\ At(code, 4) = 1
              /\ At(code, res.i - 1) = 0
              /\ res.header.dataSize = 0 => (res.i = 8)
              /\ res.header.dataSize # 0 => (res.i = 11 /\ At(code, 7) = 2)
        /\ res.exit = "end" =>
              /\ res.i = len(code)
              /\ res.err \in {ErrEOF1CodeSectionMissing,
                               ErrEOF1InvalidTotalSize}

\* a code and a data declaration with no terminator after them
C5_Witness ==
    /\ Parsed
    /\ res.exit = "end"
    /\ res.i = 10
    /\ res.err = ErrEOF1InvalidTotalSize

\* C6: isEOFCode is true iff the buffer has at least 3 bytes and starts
\* with EF CA FE; readEOF1Header returns InvalidFormatByte iff
\* hasFormatByte is false, InvalidMagic iff hasFormatByte is true and
\* hasEOFMagic is false, and so one of the two iff isEOFCode is false.
C6_DetectorAndParser ==
    /\ pc # "detect" =>
          (eof.isEOFCode <=>
              /\ len(code) >= 3
              /\ At(code, 0) = 239 /\ At(code, 1) = 202
              /\ At(code, 2) = 254)
    /\ Parsed =>
          /\ (res.err = ErrEOF1InvalidFormatByte) <=> ~eof.hasFormatByte
          /\ (res.err = ErrEOF1InvalidMagic) <=>
                 (eof.hasFormatByte /\ ~eof.hasEOFMagic)
          /\ (res.err \in {ErrEOF1InvalidFormatByte, ErrEOF1InvalidMagic})
                 <=> ~eof.isEOFCode

\* the one-byte buffer EF
C6_Witness ==
    /\ Parsed
    /\ code.head = <<239>>
    /\ code.fillLen = 0
    /\ ~eof.isEOFCode
    /\ res.err = ErrEOF1InvalidMagic

\* C7: validateEOF(code) is true iff readEOF1Header(code) returns a nil
\* error.
C7_FacadeConsistent ==
    pc \in {"trusted", "done"} => (valid <=> (res.err = nil))

\* a buffer with the prefix of a container that is not valid
C7_Witness ==
    /\ pc \in {"trusted", "done"}
    /\ eof.isEOFCode
    /\ ~valid
    /\ res.err = ErrEOF1EmptyDataSection

\* C9: readEOF1Header reads no index outside the buffer, and returns
\* either no error with a header whose codeSize is not 0, or one of the
\* 13 errors with the zero header.
Errors ==
    {ErrEOF1InvalidFormatByte, ErrEOF1InvalidMagic, ErrEOF1InvalidVersion,
     ErrEOF1MultipleCodeSections, ErrEOF1CodeSectionSizeMissing,
     ErrEOF1EmptyCodeSection, ErrEOF1DataSectionBeforeCodeSection,
     ErrEOF1MultipleDataSections, ErrEOF1DataSectionSizeMissing,
     ErrEOF1EmptyDataSection, ErrEOF1UnknownSection,
     ErrEOF1CodeSectionMissing, ErrEOF1InvalidTotalSize}

C9_Total ==
    Parsed =>
        /\ res.err # panic
        /\ \/ res.err = nil /\ res.header.codeSize \in 1..65535
                             /\ res.header.dataSize \in 0..65535
           \/ res.err \in Errors /\ res.header = ZeroHeader

\* a container cut in the middle of the size of its data section
C9_Witness ==
    /\ Parsed
    /\ code.head = <<239, 202, 254, 1, 1, 0, 2, 2, 0>>
    /\ code.fillLen = 0
    /\ res.err = ErrEOF1DataSectionSizeMissing
    /\ res.header = ZeroHeader

----------------------------------------------------------------------------
(* Properties of a buffer and the buffer edited from it.                   *)

\* C8: a buffer that keeps the bytes of an accepted buffer up to and
\* including the terminator and has another length (bytes appended, or
\* bytes of the contents cut off the end) is rejected with
\* InvalidTotalSize.
C8_LengthMismatch ==
    (/\ Parsed
     /\ edit.op \in {"append", "truncate"}
     /\ base.res.err = nil
     /\ edit.op = "truncate" => edit.n <= len(base.code) - base.res.i)
        => res.err = ErrEOF1InvalidTotalSize

\* 65536 bytes cut off the contents of an accepted container
C8_Witness ==
    /\ Parsed
    /\ edit.op = "truncate"
    /\ edit.n = 65536
    /\ base.res.err = nil
    /\ res.err = ErrEOF1InvalidTotalSize

\* the offset of the terminator that ends the declarations starting at
\* offset k, -1 when there is none
RECURSIVE TerminatorOffset(_, _)
TerminatorOffset(c, k) ==
    IF k >= len(c) THEN -1
    ELSE IF At(c, k) = 0 THEN k
    ELSE IF At(c, k) \in {1, 2} THEN TerminatorOffset(c, k + 3)
    ELSE -1

\* C10: two buffers of the same length that agree on every byte up to
\* and including the terminator of the declarations give the same
\* header and the same error.
C10_PayloadIndependent ==
    (/\ Parsed
     /\ edit.op = "overwrite"
     /\ TerminatorOffset(base.code, 4) >= 0
     /\ edit.at > TerminatorOffset(base.code, 4))
        => /\ res.header = base.res.header
           /\ res.err = base.res.err

\* an accepted container with data whose contents were overwritten
C10_Witness ==
    /\ Parsed
    /\ edit.op = "overwrite"
    /\ edit.at = 11
    /\ base.res.exit = "break"
    /\ base.res.header.dataSize # 0
    /\ base.code # code
    /\ res.err = nil
    /\ res.header = base.res.header

====
